---- MODULE Spec2Model ----
(***************************************************************************)
(* Verification model of burn-autodiff's operation-preparation protocol    *)
(* (burn-autodiff/src/ops/base.rs): the type-state pipeline OpsPrep, the   *)
(* checkpointing actions it queues, the Ops / OpsStep values it builds,    *)
(* the backward step it registers and the gradient reduction               *)
(* broadcast_shape; and of the tiled output-write kernel of burn-jit       *)
(* (kernel/matmul/tiling2d_cube/write_output.rs).                          *)
(***************************************************************************)
EXTENDS Integers, Sequences, FiniteSets, TLC

(***************************************************************************)
(* Bounds of the model.                                                    *)
(***************************************************************************)
\* number of tensors that exist before the operation is prepared
NumTensors == 2
\* largest arity N of the prepared operation
MaxArity == 2
\* largest number of checkpoint / might_need calls on one preparation
MaxActions == 2
\* number of distinct recomputation procedures passed to memory_bound
NumRetro == 1
\* number of backward passes started on the output's graph
MaxPasses == 2
\* largest rank D of the tensors handed to broadcast_shape
MaxRank == 3
\* largest extent of a dimension of the tensors handed to broadcast_shape
MaxDim == 2

(***************************************************************************)
(* Values.                                                                 *)
(***************************************************************************)
\* Option<T>: None is the empty sequence, Some(x) the one-element sequence
None == <<>>

Some(x) == <<x>>

\* the recomputation procedure slot of a property that carries none
NoRetro == 0

\* the payload slot of an action variant that does not carry it
NoContent == 0

\* the unit state () of a stateless operation
Unit == 0

ComputeBound == [kind |-> "ComputeBound", retro_forward |-> NoRetro]

Ambiguous == [kind |-> "Ambiguous", retro_forward |-> NoRetro]

MemoryBound(retro_forward) == [kind |-> "MemoryBound", retro_forward |-> retro_forward]

\* the backward functor (the value of type BO of the operation)
Backwards == {"BO"}

\* the state type S of the operation: the unit type or a proper state type
StateTypes == {"unit", "state"}

\* the values of a state type
StatesOf(ty) == IF ty = "unit" THEN {Unit} ELSE {1}

\* the primitive the forward computation hands to finish / stateless
OutputPrimitives == {200}

\* the recomputation procedures an operation can pass to memory_bound
RetroForwards == 1..NumRetro

(***************************************************************************)
(* The tensors that exist before the preparation: tensor k has node id k;  *)
(* requirement, property and primitive differ from tensor to tensor.  A    *)
(* memory-bound node carries its own recomputation procedure (10 + k).     *)
(***************************************************************************)
TensorIds == 1..NumTensors

NodeOf(k) ==
    [id |-> k,
     requirement |-> IF k % 2 = 0 THEN "Grad" ELSE "None",
     properties |-> CASE k % 3 = 1 -> Ambiguous
                      [] k % 3 = 2 -> MemoryBound(10 + k)
                      [] OTHER -> ComputeBound]

\* the opaque step of an earlier tracked operation that produced node n
ParentStep(n) == [ops |-> [parents |-> <<>>, node |-> n, state |-> Unit],
                  backward |-> "opaque"]

\* the graph of an existing tensor: its producing step when it is tracked
GraphOf(k) == IF NodeOf(k).requirement = "None" THEN {}
              ELSE {<<k, ParentStep(NodeOf(k))>>}

\* the part of tensor k that checkpoint / might_need read
TensorOf(k) == [primitive |-> 100 + k, node |-> NodeOf(k)]

\* the id NodeID::new() gives the output node: fresh, unlike every parent's
FreshNodeId == NumTensors + 1

(***************************************************************************)
(* Requirement.                                                            *)
(***************************************************************************)
Requirement_is_none(requirement) == requirement = "None"

\* the aggregate requirement: tracked if any parent requires grad
RECURSIVE Requirement_from_nodes(_)
Requirement_from_nodes(ns) ==
    IF ns = <<>> THEN "None"
    ELSE IF ~Requirement_is_none(Head(ns).requirement) THEN "Grad"
    ELSE Requirement_from_nodes(Tail(ns))

\* NodeRef::clone_if_require_grad
clone_if_require_grad(node) ==
    IF Requirement_is_none(node.requirement) THEN None ELSE Some(node)

(***************************************************************************)
(* CheckpointingAction.                                                    *)
(***************************************************************************)
Compute(node_ref, state_content) ==
    [variant |-> "Compute", node_ref |-> node_ref,
     state_content |-> state_content, retro_forward |-> NoRetro]

Recompute(node_ref, retro_forward) ==
    [variant |-> "Recompute", node_ref |-> node_ref,
     state_content |-> NoContent, retro_forward |-> retro_forward]

\* an id() that reads the wrong field of the Recompute variant
CheckpointingAction_id_wrong(action) ==
    CASE action.variant = "Compute" -> action.node_ref.id
      [] action.variant = "Recompute" -> action.retro_forward

CheckpointingAction_id(action) ==
    CASE action.variant = "Compute" -> action.node_ref.id
      [] action.variant = "Recompute" -> action.node_ref.id

(***************************************************************************)
(* State: the fields of OpsPrep, the stage tag, the output tensor and its  *)
(* graph, the backward pass, and the history of calls.                     *)
(***************************************************************************)
VARIABLES
    nodes,                          \* OpsPrep.nodes: [NodeRef; N]
    graphs,                         \* OpsPrep.graphs: [Graph; N]
    requirement,                    \* OpsPrep.requirement
    backward,                       \* OpsPrep.backward
    compute_property,               \* OpsPrep.compute_property
    checkpointing_actions,          \* OpsPrep.checkpointing_actions
    unsure_checkpointing_actions,   \* OpsPrep.unsure_checkpointing_actions
    marker,                         \* OpsPrep.marker: the Mode tag
    state_ty,                       \* the state type S of the operation
    output,                         \* Option of the AutodiffTensor returned
    graph,                          \* the steps of the output tensor's graph
    pending,                        \* steps of the running backward pass
    passes,                         \* number of backward passes started
    backward_calls,                 \* calls of Backward::backward, in order
    calls,                          \* history: the calls made on the OpsPrep
    path                            \* history: the stages gone through

\* the call of broadcast_shape
VARIABLES
    grad,                           \* broadcast_shape: the local grad
    shape,                          \* broadcast_shape: the target shape
    shape_grad,                     \* broadcast_shape: the local shape_grad
    bs_i,                           \* broadcast_shape: the loop index i
    bs_pc,                          \* broadcast_shape: where the call stands
    bs_ret,                         \* broadcast_shape: Option of the tensor returned
    bs_input,                       \* history: the grad the call was given
    sum_calls                       \* history: the dimensions float_sum_dim was called on

bsVars == <<grad, shape, shape_grad, bs_i, bs_pc, bs_ret, bs_input, sum_calls>>

VARIABLES
    config,                         \* CubeTiling2dConfig of the specialization
    out_tensor,                     \* the output tensor: shape, stride, vectorization, data
    offset_output,                  \* the batch offset of the output
    coordinates,                    \* Coordinates of every unit
    results,                        \* the tile of every unit, row-major
    unit_state,                     \* where every unit stands in write_to_output
    stores                          \* the stores issued so far, in order

kVars == <<config, out_tensor, offset_output, coordinates, results,
           unit_state, stores>>

prepVars == <<nodes, graphs, requirement, backward, state_ty>>

bufVars == <<checkpointing_actions, unsure_checkpointing_actions>>

passVars == <<pending, passes, backward_calls>>

vars == <<nodes, graphs, requirement, backward, compute_property,
          checkpointing_actions, unsure_checkpointing_actions, marker,
          state_ty, output, graph, pending, passes, backward_calls,
          calls, path, bsVars, kVars>>

\* no call of broadcast_shape is under way
\* no kernel is launched
KernelIdle ==
    /\ config = None
    /\ out_tensor = None
    /\ offset_output = 0
    /\ coordinates = <<>>
    /\ results = <<>>
    /\ unit_state = <<>>
    /\ stores = <<>>

BroadcastIdle ==
    /\ grad = None
    /\ shape = <<>>
    /\ shape_grad = <<>>
    /\ bs_i = 0
    /\ bs_pc = "idle"
    /\ bs_ret = None
    /\ bs_input = None
    /\ sum_calls = <<>>

Call(op, arg, ret) == [op |-> op, arg |-> arg, ret |-> ret]

(***************************************************************************)
(* Construction.                                                           *)
(***************************************************************************)
\* the sequences of at most n tensor ids
SeqsUpTo(n) == UNION {[1..k -> TensorIds] : k \in 0..n}

\* OpsPrep::new
OpsPrep_new(ns, gs, req, bo, cp, ca, uca) ==
    [nodes |-> ns, graphs |-> gs, requirement |-> req, backward |-> bo,
     compute_property |-> cp, checkpointing_actions |-> ca,
     unsure_checkpointing_actions |-> uca]

\* Backward::prepare: the Init-stage preparation of an operation on parents ks
prepare(bo, ks) ==
    LET ns == [i \in 1..Len(ks) |-> NodeOf(ks[i])]
        gs == [i \in 1..Len(ks) |-> GraphOf(ks[i])]
    IN  OpsPrep_new(ns, gs, Requirement_from_nodes(ns), bo, Ambiguous, <<>>, <<>>)

Init ==
    \E bo \in Backwards, ks \in SeqsUpTo(MaxArity), ty \in StateTypes :
        LET p == prepare(bo, ks) IN
        /\ nodes = p.nodes
        /\ graphs = p.graphs
        /\ requirement = p.requirement
        /\ backward = p.backward
        /\ compute_property = p.compute_property
        /\ checkpointing_actions = p.checkpointing_actions
        /\ unsure_checkpointing_actions = p.unsure_checkpointing_actions
        /\ marker = "Init"
        /\ state_ty = ty
        /\ output = None
        /\ graph = {}
        /\ pending = {}
        /\ passes = 0
        /\ backward_calls = <<>>
        /\ calls = <<>>
        /\ path = <<"Init">>
        /\ BroadcastIdle
        /\ KernelIdle

(***************************************************************************)
(* Init stage: choosing the compute property.                              *)
(***************************************************************************)
\* a compute_bound that forgets to tag the property
compute_bound_untagged ==
    /\ marker = "Init"
    /\ compute_property' = compute_property
    /\ marker' = "ComputePropertyChosen"
    /\ calls' = Append(calls, Call("compute_bound", 0, 0))
    /\ path' = Append(path, "ComputePropertyChosen")
    /\ UNCHANGED <<kVars, bsVars, prepVars, bufVars, output, graph, passVars>>

compute_bound ==
    /\ marker = "Init"
    /\ compute_property' = ComputeBound
    /\ marker' = "ComputePropertyChosen"
    /\ calls' = Append(calls, Call("compute_bound", 0, 0))
    /\ path' = Append(path, "ComputePropertyChosen")
    /\ UNCHANGED <<kVars, bsVars, prepVars, bufVars, output, graph, passVars>>

memory_bound(retro_forward) ==
    /\ marker = "Init"
    /\ compute_property' = MemoryBound(retro_forward)
    /\ marker' = "ComputePropertyChosen"
    /\ calls' = Append(calls, Call("memory_bound", retro_forward, 0))
    /\ path' = Append(path, "ComputePropertyChosen")
    /\ UNCHANGED <<kVars, bsVars, prepVars, bufVars, output, graph, passVars>>

(***************************************************************************)
(* stateful: the classification into Tracked / UnTracked.                  *)
(***************************************************************************)
\* OpsPrep<ComputePropertyChosen>::stateful: the OpsKind variant returned
stateful_ComputePropertyChosen_kind(req) ==
    IF Requirement_is_none(req) = FALSE THEN "Tracked" ELSE "UnTracked"

\* a stateful whose match arms are exchanged
stateful_Init_kind_swapped(req) ==
    IF Requirement_is_none(req) = FALSE THEN "UnTracked" ELSE "Tracked"

\* OpsPrep<Init>::stateful: the OpsKind variant returned
stateful_Init_kind(req) ==
    IF Requirement_is_none(req) = FALSE THEN "Tracked" ELSE "UnTracked"

\* a stateful that puts the compute property back to its default
stateful_ComputePropertyChosen_resetting ==
    /\ marker = "ComputePropertyChosen"
    /\ marker' = stateful_ComputePropertyChosen_kind(requirement)
    /\ compute_property' = Ambiguous
    /\ calls' = Append(calls, Call("stateful", 0, 0))
    /\ path' = Append(path, marker')
    /\ UNCHANGED <<kVars, bsVars, prepVars, bufVars, output, graph, passVars>>

stateful_ComputePropertyChosen ==
    /\ marker = "ComputePropertyChosen"
    /\ marker' = stateful_ComputePropertyChosen_kind(requirement)
    /\ calls' = Append(calls, Call("stateful", 0, 0))
    /\ path' = Append(path, marker')
    /\ UNCHANGED <<kVars, bsVars, prepVars, compute_property, bufVars, output, graph, passVars>>

stateful_Init ==
    /\ marker = "Init"
    /\ marker' = stateful_Init_kind(requirement)
    /\ calls' = Append(calls, Call("stateful", 0, 0))
    /\ path' = Append(path, marker')
    /\ UNCHANGED <<kVars, bsVars, prepVars, compute_property, bufVars, output, graph, passVars>>

(***************************************************************************)
(* Finishing: the output tensor, the Ops value and the registered step.    *)
(***************************************************************************)
\* the state slot of a finish call that takes no state
NoState == 0 - 1

\* AutodiffTensor::from_parents: the output tensor and its graph
from_parents(out, ns, gs, req, cp, ca, uca) ==
    [tensor |-> [primitive |-> out,
                 node |-> [id |-> FreshNodeId, requirement |-> req, properties |-> cp],
                 parents |-> [i \in 1..Len(ns) |-> ns[i].id],
                 checkpointing_actions |-> ca,
                 unsure_checkpointing_actions |-> uca],
     graph |-> UNION {gs[i] : i \in 1..Len(gs)}]

\* Ops::new
Ops_new(parents, node, state) == [parents |-> parents, node |-> node, state |-> state]

\* OpsStep::new
OpsStep_new(ops, bo) == [ops |-> ops, backward |-> bo]

\* OpsStep::node
OpsStep_node(step) == step.ops.node

\* a step that hands the backward function an Ops without its state
OpsStep_step_stateless(step, grads, checkpointer) ==
    [backward |-> step.backward,
     ops |-> [parents |-> step.ops.parents, node |-> step.ops.node, state |-> Unit],
     grads |-> grads, checkpointer |-> checkpointer]

\* OpsStep::step: the call of the operation's backward function it makes
OpsStep_step(step, grads, checkpointer) ==
    [backward |-> step.backward, ops |-> step.ops,
     grads |-> grads, checkpointer |-> checkpointer]

\* AutodiffTensor::register_step: the step is keyed by the node it produces
register_step(out, step) ==
    [tensor |-> out.tensor,
     graph |-> out.graph \cup {<<OpsStep_node(step).id, step>>}]

\* an UnTracked finish that registers a step as the Tracked finish does
UnTracked_finish_result_stepped(out) ==
    LET o == from_parents(out, nodes, graphs, requirement, compute_property,
                          checkpointing_actions, unsure_checkpointing_actions)
        parents == [i \in 1..Len(nodes) |-> clone_if_require_grad(nodes[i])]
        ops == Ops_new(parents, o.tensor.node, Unit)
    IN  register_step(o, OpsStep_new(ops, backward))

\* OpsPrep<UnTracked>::finish
UnTracked_finish_result(out) ==
    from_parents(out, nodes, graphs, requirement, compute_property,
                 checkpointing_actions, unsure_checkpointing_actions)

\* a Tracked finish that never registers its step
Tracked_finish_result_unregistered(state, out) ==
    from_parents(out, nodes, graphs, requirement, compute_property,
                 checkpointing_actions, unsure_checkpointing_actions)

\* a Tracked finish that drops the parents not requiring grad instead of
\* leaving None at their position
Tracked_finish_result_compacted(state, out) ==
    LET o == from_parents(out, nodes, graphs, requirement, compute_property,
                          checkpointing_actions, unsure_checkpointing_actions)
        kept == SelectSeq(nodes, LAMBDA n : ~Requirement_is_none(n.requirement))
        parents == [i \in 1..Len(kept) |-> Some(kept[i])]
        ops == Ops_new(parents, o.tensor.node, state)
    IN  register_step(o, OpsStep_new(ops, backward))

\* a Tracked finish that hands over the two buffers in exchanged order
Tracked_finish_result_exchanged(state, out) ==
    LET o == from_parents(out, nodes, graphs, requirement, compute_property,
                          unsure_checkpointing_actions, checkpointing_actions)
        parents == [i \in 1..Len(nodes) |-> clone_if_require_grad(nodes[i])]
        ops == Ops_new(parents, o.tensor.node, state)
    IN  register_step(o, OpsStep_new(ops, backward))

\* OpsPrep<Tracked>::finish
Tracked_finish_result(state, out) ==
    LET o == from_parents(out, nodes, graphs, requirement, compute_property,
                          checkpointing_actions, unsure_checkpointing_actions)
        parents == [i \in 1..Len(nodes) |-> clone_if_require_grad(nodes[i])]
        ops == Ops_new(parents, o.tensor.node, state)
    IN  register_step(o, OpsStep_new(ops, backward))

UnTracked_finish(out) ==
    /\ marker = "UnTracked"
    /\ LET r == UnTracked_finish_result(out) IN
        /\ output' = Some(r.tensor)
        /\ graph' = r.graph
    /\ marker' = "Finished"
    /\ calls' = Append(calls, Call("UnTracked.finish", NoState, out))
    /\ path' = Append(path, "Finished")
    /\ UNCHANGED <<kVars, bsVars, prepVars, compute_property, bufVars, passVars>>

Tracked_finish(state, out) ==
    /\ marker = "Tracked"
    /\ LET r == Tracked_finish_result(state, out) IN
        /\ output' = Some(r.tensor)
        /\ graph' = r.graph
    /\ marker' = "Finished"
    /\ calls' = Append(calls, Call("Tracked.finish", state, out))
    /\ path' = Append(path, "Finished")
    /\ UNCHANGED <<kVars, bsVars, prepVars, compute_property, bufVars, passVars>>

(***************************************************************************)
(* stateless: stateful followed by finish, with the unit state.            *)
(***************************************************************************)
\* a stateless that finishes the Tracked kind through the UnTracked finish
stateless_body_untracked(kind, out) ==
    /\ LET r == UnTracked_finish_result(out) IN
        /\ output' = Some(r.tensor)
        /\ graph' = r.graph
    /\ marker' = "Finished"
    /\ calls' = calls \o <<Call("stateless", 0, out), Call("stateful", 0, 0),
                            Call("UnTracked.finish", NoState, out)>>
    /\ path' = path \o <<kind, "Finished">>
    /\ UNCHANGED <<kVars, bsVars, prepVars, compute_property, bufVars, passVars>>

\* the body shared by the two stateless: match self.stateful() { .. finish .. }
stateless_body(kind, out) ==
    /\ LET r == IF kind = "Tracked" THEN Tracked_finish_result(Unit, out)
                ELSE UnTracked_finish_result(out) IN
        /\ output' = Some(r.tensor)
        /\ graph' = r.graph
    /\ marker' = "Finished"
    /\ calls' = calls \o <<Call("stateless", 0, out), Call("stateful", 0, 0),
                            IF kind = "Tracked"
                            THEN Call("Tracked.finish", Unit, out)
                            ELSE Call("UnTracked.finish", NoState, out)>>
    /\ path' = path \o <<kind, "Finished">>
    /\ UNCHANGED <<kVars, bsVars, prepVars, compute_property, bufVars, passVars>>

stateless_ComputePropertyChosen(out) ==
    /\ marker = "ComputePropertyChosen"
    /\ state_ty = "unit"
    /\ stateless_body(stateful_ComputePropertyChosen_kind(requirement), out)

stateless_Init(out) ==
    /\ marker = "Init"
    /\ state_ty = "unit"
    /\ stateless_body(stateful_Init_kind(requirement), out)

(***************************************************************************)
(* Tracked stage: queueing checkpointing actions.                          *)
(***************************************************************************)
\* a checkpoint that snapshots only ComputeBound nodes
checkpoint_action_strict(tensor) ==
    CASE tensor.node.properties.kind \in {"ComputeBound"} ->
            Compute(tensor.node, tensor.primitive)
      [] tensor.node.properties.kind \in {"MemoryBound", "Ambiguous"} ->
            Recompute(tensor.node, tensor.node.properties.retro_forward)

\* the action checkpoint builds for a tensor
checkpoint_action(tensor) ==
    CASE tensor.node.properties.kind \in {"ComputeBound", "Ambiguous"} ->
            Compute(tensor.node, tensor.primitive)
      [] tensor.node.properties.kind = "MemoryBound" ->
            Recompute(tensor.node, tensor.node.properties.retro_forward)

\* the action might_need builds for a tensor
might_need_action(tensor) ==
    CASE tensor.node.properties.kind \in {"ComputeBound", "Ambiguous"} ->
            Compute(tensor.node, tensor.primitive)
      [] tensor.node.properties.kind = "MemoryBound" ->
            Recompute(tensor.node, tensor.node.properties.retro_forward)

\* the NodeID checkpoint returns
checkpoint_ret(tensor) == tensor.node.id

\* the NodeID might_need returns
might_need_ret(tensor) == tensor.node.id

\* the buffers after checkpoint(tensor)
checkpoint_bufs(tensor) ==
    [checkpointing_actions |-> Append(checkpointing_actions, checkpoint_action(tensor)),
     unsure_checkpointing_actions |-> unsure_checkpointing_actions]

\* a might_need that pushes into the decided buffer
might_need_bufs_decided(tensor) ==
    [checkpointing_actions |-> Append(checkpointing_actions, might_need_action(tensor)),
     unsure_checkpointing_actions |-> unsure_checkpointing_actions]

\* the buffers after might_need(tensor)
might_need_bufs(tensor) ==
    [checkpointing_actions |-> checkpointing_actions,
     unsure_checkpointing_actions |->
         Append(unsure_checkpointing_actions, might_need_action(tensor))]

checkpoint(k) ==
    /\ marker = "Tracked"
    /\ Len(checkpointing_actions) + Len(unsure_checkpointing_actions) < MaxActions
    /\ LET b == checkpoint_bufs(TensorOf(k)) IN
        /\ checkpointing_actions' = b.checkpointing_actions
        /\ unsure_checkpointing_actions' = b.unsure_checkpointing_actions
    /\ calls' = Append(calls, Call("checkpoint", k, checkpoint_ret(TensorOf(k))))
    /\ UNCHANGED <<kVars, bsVars, prepVars, compute_property, marker, output, graph, passVars, path>>

might_need(k) ==
    /\ marker = "Tracked"
    /\ Len(checkpointing_actions) + Len(unsure_checkpointing_actions) < MaxActions
    /\ LET b == might_need_bufs(TensorOf(k)) IN
        /\ checkpointing_actions' = b.checkpointing_actions
        /\ unsure_checkpointing_actions' = b.unsure_checkpointing_actions
    /\ calls' = Append(calls, Call("might_need", k, might_need_ret(TensorOf(k))))
    /\ UNCHANGED <<kVars, bsVars, prepVars, compute_property, marker, output, graph, passVars, path>>

(***************************************************************************)
(* The backward pass over the output's graph: the steps are taken out of   *)
(* the graph and invoked from the output node backwards (newest node       *)
(* first), each invocation consuming its step.                             *)
(***************************************************************************)
\* the gradient store of the p-th pass
GradientsOf(p) == 300 + p

\* the checkpointer of the p-th pass
CheckpointerOf(p) == 400 + p

backward_start ==
    /\ marker = "Finished"
    /\ pending = {}
    /\ passes < MaxPasses
    /\ pending' = graph
    /\ graph' = {}
    /\ passes' = passes + 1
    /\ UNCHANGED <<kVars, bsVars, prepVars, compute_property, bufVars, marker, output,
                   backward_calls, calls, path>>

backward_step ==
    /\ \E e \in pending :
         /\ \A f \in pending : f[1] <= e[1]
         /\ pending' = pending \ {e}
         /\ backward_calls' = Append(backward_calls,
                OpsStep_step(e[2], GradientsOf(passes), CheckpointerOf(passes)))
    /\ UNCHANGED <<kVars, bsVars, prepVars, compute_property, bufVars, marker, output, graph,
                   passes, calls, path>>

(***************************************************************************)
(* The specification.                                                      *)
(***************************************************************************)
Next ==
    \/ compute_bound
    \/ \E r \in RetroForwards : memory_bound(r)
    \/ stateful_ComputePropertyChosen
    \/ stateful_Init
    \/ \E out \in OutputPrimitives : stateless_ComputePropertyChosen(out)
    \/ \E out \in OutputPrimitives : stateless_Init(out)
    \/ \E out \in OutputPrimitives : UnTracked_finish(out)
    \/ \E out \in OutputPrimitives, state \in StatesOf(state_ty) :
           Tracked_finish(state, out)
    \/ \E k \in TensorIds : checkpoint(k)
    \/ \E k \in TensorIds : might_need(k)
    \/ backward_start
    \/ backward_step

Spec == Init /\ [][Next]_vars

(***************************************************************************)
(* Helpers of the properties.                                              *)
(***************************************************************************)
\* the calls of one method, in call order
CallsOf(op) == SelectSeq(calls, LAMBDA c : c.op = op)

\* the steps the parents' graphs brought into the output's graph
ParentSteps == UNION {graphs[i] : i \in 1..Len(graphs)}

\* the steps registered by the preparation itself, wherever they are now
RegisteredIn(g) == g \ ParentSteps

\* the finish calls made on the preparation
FinishCalls == SelectSeq(calls, LAMBDA c : c.op \in {"Tracked.finish", "UnTracked.finish"})

\* the calls of the backward function made for the output node
OwnBackwardCalls ==
    SelectSeq(backward_calls, LAMBDA c : output # None /\ c.ops.node = output[1].node)

(***************************************************************************)
(* C1: whatever the arity and whichever way the preparation is completed   *)
(* (stateless, or stateful followed by finish), a backward step is         *)
(* registered on the output tensor iff the aggregate requirement is not    *)
(* none: none finishes through UnTracked.finish with zero steps, some      *)
(* parent requiring grad finishes through Tracked.finish with exactly one. *)
(***************************************************************************)
C1_StepIffRequired ==
    (marker = "Finished" /\ passes = 0) =>
        LET anyGrad == \E i \in 1..Len(nodes) : nodes[i].requirement # "None"
            own == RegisteredIn(graph)
        IN  /\ (requirement = "None") <=> ~anyGrad
            /\ anyGrad => /\ Cardinality(own) = 1
                          /\ FinishCalls[1].op = "Tracked.finish"
            /\ ~anyGrad => /\ own = {}
                           /\ FinishCalls[1].op = "UnTracked.finish"
                           /\ output[1].node.requirement = "None"

C1_Witness ==
    /\ marker = "Finished"
    /\ Len(nodes) = 2
    /\ nodes[1].requirement = "None"
    /\ nodes[2].requirement = "Grad"
    /\ Cardinality(RegisteredIn(graph)) = 1
    /\ calls[1].op = "stateless"

(***************************************************************************)
(* C2: stateful, called in the Init stage or in the ComputePropertyChosen  *)
(* stage, yields Tracked exactly when the requirement is not none and      *)
(* UnTracked exactly when it is; both stages classify alike, whatever the  *)
(* compute property and the arity.                                         *)
(***************************************************************************)
C2_StatefulClassifies ==
    [][(marker \in {"Init", "ComputePropertyChosen"}
            /\ marker' \in {"Tracked", "UnTracked"})
        => /\ (marker' = "Tracked") <=> (requirement # "None")
           /\ (marker' = "UnTracked") <=> (requirement = "None")]_vars

C2_Witness ==
    /\ marker = "Tracked"
    /\ path = <<"Init", "ComputePropertyChosen", "Tracked">>
    /\ compute_property.kind = "MemoryBound"
    /\ Len(nodes) = 1

(***************************************************************************)
(* C3: in the Ops built by Tracked.finish, parents[i] is Some(parent i)    *)
(* iff parent i requires grad and None otherwise, positions preserved, and *)
(* Ops.node is the node of the output tensor just created.                 *)
(***************************************************************************)
C3_OpsParents ==
    (marker = "Finished" /\ passes = 0 /\ FinishCalls[1].op = "Tracked.finish") =>
        /\ Cardinality(RegisteredIn(graph)) = 1
        /\ \A e \in RegisteredIn(graph) :
              LET ops == e[2].ops IN
              /\ Len(ops.parents) = Len(nodes)
              /\ \A i \in 1..Len(nodes) :
                    /\ nodes[i].requirement # "None" => ops.parents[i] = <<nodes[i]>>
                    /\ nodes[i].requirement = "None" => ops.parents[i] = <<>>
              /\ ops.node = output[1].node
              /\ ops.node.id = FreshNodeId

C3_Witness ==
    /\ marker = "Finished"
    /\ passes = 0
    /\ FinishCalls[1].op = "Tracked.finish"
    /\ Len(nodes) = 2
    /\ nodes[1].requirement = "None"
    /\ nodes[2].requirement = "Grad"
    /\ \E e \in RegisteredIn(graph) :
          e[2].ops.parents = <<None, Some(nodes[2])>>

(***************************************************************************)
(* C4: each checkpoint(t) appends exactly one action to the decided        *)
(* buffer: Compute with a snapshot of t's primitive when t's node is       *)
(* ComputeBound or Ambiguous, Recompute with the node's own recomputation  *)
(* procedure when it is MemoryBound; it returns t's NodeID and leaves the  *)
(* unsure buffer unchanged.                                                *)
(***************************************************************************)
\* the action the classification rule prescribes for tensor t
ExpectedAction(t) ==
    IF t.node.properties.kind = "MemoryBound"
    THEN [variant |-> "Recompute", node_ref |-> t.node, state_content |-> NoContent,
          retro_forward |-> t.node.properties.retro_forward]
    ELSE [variant |-> "Compute", node_ref |-> t.node, state_content |-> t.primitive,
          retro_forward |-> NoRetro]

C4_CheckpointAppends ==
    [][(Len(calls') = Len(calls) + 1 /\ calls'[Len(calls')].op = "checkpoint")
        => LET c == calls'[Len(calls')]
               t == TensorOf(c.arg)
           IN  /\ checkpointing_actions' = checkpointing_actions \o <<ExpectedAction(t)>>
               /\ unsure_checkpointing_actions' = unsure_checkpointing_actions
               /\ c.ret = t.node.id]_vars

C4_Witness ==
    /\ Len(checkpointing_actions) = 2
    /\ checkpointing_actions[1].variant = "Compute"
    /\ checkpointing_actions[1].node_ref.properties.kind = "Ambiguous"
    /\ checkpointing_actions[2].variant = "Recompute"
    /\ checkpointing_actions[2].retro_forward = checkpointing_actions[2].node_ref.properties.retro_forward
    /\ compute_property.kind = "MemoryBound"
    /\ calls[Len(calls)].op = "checkpoint"

(***************************************************************************)
(* C5: might_need(t) classifies t as checkpoint(t) does and returns the    *)
(* same NodeID, but appends its action to the unsure buffer and leaves the *)
(* decided buffer alone: after any interleaving the decided buffer holds   *)
(* exactly the checkpoint calls and the unsure buffer exactly the          *)
(* might_need calls, each in call order.                                   *)
(***************************************************************************)
C5_MightNeedUnsure ==
    LET ck == CallsOf("checkpoint")
        mn == CallsOf("might_need")
    IN  /\ Len(checkpointing_actions) = Len(ck)
        /\ \A i \in 1..Len(ck) :
              checkpointing_actions[i] = ExpectedAction(TensorOf(ck[i].arg))
        /\ Len(unsure_checkpointing_actions) = Len(mn)
        /\ \A i \in 1..Len(mn) :
              /\ unsure_checkpointing_actions[i] = checkpoint_action(TensorOf(mn[i].arg))
              /\ mn[i].ret = checkpoint_ret(TensorOf(mn[i].arg))

C5_Witness ==
    /\ Len(checkpointing_actions) = 1
    /\ Len(unsure_checkpointing_actions) = 1
    /\ unsure_checkpointing_actions[1].variant = "Recompute"
    /\ checkpointing_actions[1].variant = "Compute"
    /\ calls[Len(calls)].op = "checkpoint"
    /\ calls[Len(calls) - 1].op = "might_need"

(***************************************************************************)
(* C6: for every action in either buffer, of either variant, id() is the   *)
(* NodeID of the node the action references, which is the NodeID that      *)
(* checkpoint / might_need returned when it pushed the action.             *)
(***************************************************************************)
C6_ActionIdIsNodeId ==
    LET ck == CallsOf("checkpoint")
        mn == CallsOf("might_need")
    IN  /\ \A i \in 1..Len(checkpointing_actions) :
              /\ i <= Len(ck)
              /\ CheckpointingAction_id(checkpointing_actions[i]) = ck[i].ret
              /\ CheckpointingAction_id(checkpointing_actions[i]) = NodeOf(ck[i].arg).id
              /\ checkpointing_actions[i].node_ref = NodeOf(ck[i].arg)
        /\ \A i \in 1..Len(unsure_checkpointing_actions) :
              /\ i <= Len(mn)
              /\ CheckpointingAction_id(unsure_checkpointing_actions[i]) = mn[i].ret
              /\ CheckpointingAction_id(unsure_checkpointing_actions[i]) = NodeOf(mn[i].arg).id
              /\ unsure_checkpointing_actions[i].node_ref = NodeOf(mn[i].arg)

C6_Witness ==
    /\ Len(checkpointing_actions) = 1
    /\ Len(unsure_checkpointing_actions) = 1
    /\ checkpointing_actions[1].variant = "Recompute"
    /\ unsure_checkpointing_actions[1].variant = "Compute"
    /\ CheckpointingAction_id(checkpointing_actions[1]) = 2
    /\ CheckpointingAction_id(unsure_checkpointing_actions[1]) = 1

(***************************************************************************)
(* C7: at finish time the decided buffer handed to the output tensor holds *)
(* exactly one action per checkpoint call, in call order; two of its       *)
(* actions have the same NodeID exactly when they come from checkpoint     *)
(* calls on the same node.                                                 *)
(***************************************************************************)
C7_OneActionPerCall ==
    (marker = "Finished") =>
        LET ck == CallsOf("checkpoint")
            decided == output[1].checkpointing_actions
        IN  /\ Len(decided) = Len(ck)
            /\ \A i \in 1..Len(decided) :
                  CheckpointingAction_id(decided[i]) = NodeOf(ck[i].arg).id
            /\ \A i, j \in 1..Len(decided) :
                  (CheckpointingAction_id(decided[i]) = CheckpointingAction_id(decided[j]))
                      <=> (NodeOf(ck[i].arg) = NodeOf(ck[j].arg))

C7_Witness ==
    /\ marker = "Finished"
    /\ Len(output[1].checkpointing_actions) = 2
    /\ Len(CallsOf("checkpoint")) = 2
    /\ CheckpointingAction_id(output[1].checkpointing_actions[1])
         # CheckpointingAction_id(output[1].checkpointing_actions[2])

\* C7 as first stated: at finish time no two actions in the decided buffer
\* handed to the output tensor have the same NodeID, repeated checkpoint
\* calls with the same tensor included
C7_Original ==
    (marker = "Finished") =>
        LET decided == output[1].checkpointing_actions
        IN  \A i, j \in 1..Len(decided) :
              i # j => CheckpointingAction_id(decided[i]) # CheckpointingAction_id(decided[j])

(***************************************************************************)
(* C8: the stages form a strict linear order with no backward transition:  *)
(* Init -> (optionally ComputePropertyChosen) -> exactly one of Tracked or *)
(* UnTracked -> finished; finish is reached only from Tracked or           *)
(* UnTracked, at most once, with a backward state when Tracked and without *)
(* any state when UnTracked.                                               *)
(***************************************************************************)
\* the complete runs through the stages
StageRuns ==
    {<<"Init">> \o mid \o <<kind, "Finished">> :
        mid \in {<<>>, <<"ComputePropertyChosen">>}, kind \in {"Tracked", "UnTracked"}}

IsPrefix(p, q) == Len(p) <= Len(q) /\ SubSeq(q, 1, Len(p)) = p

C8_LinearStages ==
    /\ \E run \in StageRuns : IsPrefix(path, run)
    /\ marker = path[Len(path)]
    /\ Len(FinishCalls) = (IF marker = "Finished" THEN 1 ELSE 0)
    /\ (output # None) <=> (marker = "Finished")
    /\ marker = "Finished" =>
          LET kind == path[Len(path) - 1]
              f == FinishCalls[1]
          IN  /\ kind = "Tracked" =>
                    /\ f.op = "Tracked.finish"
                    /\ f.arg \in StatesOf(state_ty)
                    /\ \E e \in RegisteredIn(graph \cup pending) \cup
                                {<<c.ops.node.id, [ops |-> c.ops, backward |-> c.backward]>> :
                                    c \in {OwnBackwardCalls[i] : i \in 1..Len(OwnBackwardCalls)}} :
                          e[2].ops.state = f.arg
              /\ kind = "UnTracked" =>
                    /\ f.op = "UnTracked.finish"
                    /\ f.arg = NoState
                    /\ RegisteredIn(graph \cup pending) = {}
                    /\ OwnBackwardCalls = <<>>

C8_Witness ==
    /\ path = <<"Init", "ComputePropertyChosen", "Tracked", "Finished">>
    /\ state_ty = "state"
    /\ FinishCalls[1].arg = 1
    /\ Len(checkpointing_actions) = 1

(***************************************************************************)
(* C9: the compute property attached to the output node is determined by   *)
(* the path from Init: ComputeBound after compute_bound(), MemoryBound     *)
(* with exactly the supplied procedure after memory_bound(r), Ambiguous    *)
(* when ComputePropertyChosen is skipped; stateful, checkpoint, might_need *)
(* and finish never change it.                                             *)
(***************************************************************************)
\* the property the calls made so far prescribe
PrescribedProperty ==
    IF CallsOf("compute_bound") # <<>>
    THEN [kind |-> "ComputeBound", retro_forward |-> NoRetro]
    ELSE IF CallsOf("memory_bound") # <<>>
    THEN [kind |-> "MemoryBound", retro_forward |-> CallsOf("memory_bound")[1].arg]
    ELSE [kind |-> "Ambiguous", retro_forward |-> NoRetro]

C9_PropertyFromPath ==
    /\ compute_property = PrescribedProperty
    /\ output # None => output[1].node.properties = PrescribedProperty
    /\ Len(CallsOf("compute_bound")) + Len(CallsOf("memory_bound"))
          = (IF "ComputePropertyChosen" \in {path[i] : i \in 1..Len(path)} THEN 1 ELSE 0)

C9_Witness ==
    /\ output # None
    /\ output[1].node.properties = MemoryBound(1)
    /\ Len(checkpointing_actions) = 1
    /\ checkpointing_actions[1].variant = "Recompute"
    /\ Len(unsure_checkpointing_actions) = 1

(***************************************************************************)
(* C10: the step registered by Tracked.finish is keyed by the node it      *)
(* produces (node() is the output tensor's node) and is invoked exactly    *)
(* once during a backward pass: step() consumes it and calls the           *)
(* operation's backward function once, with the Ops built at finish time,  *)
(* the gradient store and the checkpointer; a consumed step is never       *)
(* invoked again.                                                          *)
(***************************************************************************)
\* the Ops that Tracked.finish built, from the preparation's fields
OpsAtFinish ==
    [parents |-> [i \in 1..Len(nodes) |->
                     IF nodes[i].requirement = "None" THEN <<>> ELSE <<nodes[i]>>],
     node |-> output[1].node,
     state |-> FinishCalls[1].arg]

C10_StepOnce ==
    /\ \A e \in graph \cup pending : e[1] = OpsStep_node(e[2]).id
    /\ (marker = "Finished" /\ FinishCalls[1].op = "Tracked.finish") =>
          LET own == RegisteredIn(graph \cup pending) IN
          /\ \A e \in own : /\ OpsStep_node(e[2]) = output[1].node
                            /\ e[2].ops = OpsAtFinish
                            /\ e[2].backward = backward
          /\ Cardinality(own) + Len(OwnBackwardCalls) = 1
          /\ (passes >= 1 /\ pending = {}) => Len(OwnBackwardCalls) = 1
          /\ \A i \in 1..Len(OwnBackwardCalls) :
                OwnBackwardCalls[i] = [backward |-> backward, ops |-> OpsAtFinish,
                                       grads |-> GradientsOf(1),
                                       checkpointer |-> CheckpointerOf(1)]

C10_Witness ==
    /\ passes = 2
    /\ pending = {}
    /\ Len(OwnBackwardCalls) = 1
    /\ Len(backward_calls) = 2
    /\ backward_calls[1].ops.node = output[1].node
    /\ backward_calls[1].ops.state = 1
    /\ backward_calls[2].backward = "opaque"

(***************************************************************************)
(* broadcast_shape: the reduction of a gradient to the shape of the tensor *)
(* that was broadcast in the forward pass.                                 *)
(***************************************************************************)
\* no operation is being prepared
PrepIdle ==
    /\ nodes = <<>>
    /\ graphs = <<>>
    /\ requirement = "None"
    /\ backward = "BO"
    /\ compute_property = Ambiguous
    /\ checkpointing_actions = <<>>
    /\ unsure_checkpointing_actions = <<>>
    /\ marker = "idle"
    /\ state_ty = "unit"
    /\ output = None
    /\ graph = {}
    /\ pending = {}
    /\ passes = 0
    /\ backward_calls = <<>>
    /\ calls = <<>>
    /\ path = <<>>

prepAll == <<nodes, graphs, requirement, backward, compute_property,
             checkpointing_actions, unsure_checkpointing_actions, marker,
             state_ty, output, graph, pending, passes, backward_calls,
             calls, path>>

\* the shapes of rank d with extents 1..MaxDim
Shapes(d) == [1..d -> 1..MaxDim]

\* the indices of a tensor of the given dims (0-based in every dimension)
Indices(dims) == {idx \in [1..Len(dims) -> 0..MaxDim] :
                     \A k \in 1..Len(dims) : idx[k] < dims[k]}

\* the value of the gradient handed in at an index: distinct at every index
RECURSIVE Encode(_)
Encode(idx) == IF idx = <<>> THEN 0
               ELSE idx[Len(idx)] + 10 * Encode(SubSeq(idx, 1, Len(idx) - 1))

\* the first values of the gradients handed in
GradSeeds == {1, 5}

\* a gradient tensor of the given dims
GradTensor(dims, seed) ==
    [dims |-> dims, data |-> [idx \in Indices(dims) |-> seed + Encode(idx)]]

\* B::float_shape
float_shape(t) == t.dims

\* the sum of the values of t at idx with the 0-based dimension d running
\* over 0..k
RECURSIVE SumAlong(_, _, _, _)
SumAlong(t, idx, d, k) ==
    IF k < 0 THEN 0
    ELSE t.data[[idx EXCEPT ![d + 1] = k]] + SumAlong(t, idx, d, k - 1)

\* B::float_sum_dim over the 0-based dimension d: the dimension collapses to 1
float_sum_dim(t, d) ==
    LET dims == [t.dims EXCEPT ![d + 1] = 1]
    IN  [dims |-> dims,
         data |-> [idx \in Indices(dims) |-> SumAlong(t, idx, d, t.dims[d + 1] - 1)]]

\* a loop body that always sums over the first dimension
broadcast_shape_body_first(g, sg, sh, d) ==
    IF sg[d + 1] # sh[d + 1]
    THEN IF sh[d + 1] # 1
         THEN [panic |-> TRUE, grad |-> g, summed |-> FALSE]
         ELSE [panic |-> FALSE, grad |-> float_sum_dim(g, 0), summed |-> TRUE]
    ELSE [panic |-> FALSE, grad |-> g, summed |-> FALSE]

\* a loop body that lets a gradient of extent 1 pass against a larger target
broadcast_shape_body_lenient(g, sg, sh, d) ==
    IF sg[d + 1] # sh[d + 1]
    THEN IF sh[d + 1] # 1
         THEN IF sg[d + 1] = 1
              THEN [panic |-> FALSE, grad |-> g, summed |-> FALSE]
              ELSE [panic |-> TRUE, grad |-> g, summed |-> FALSE]
         ELSE [panic |-> FALSE, grad |-> float_sum_dim(g, d), summed |-> TRUE]
    ELSE [panic |-> FALSE, grad |-> g, summed |-> FALSE]

\* a loop body that sums every dimension whose target extent is 1
broadcast_shape_body_eager(g, sg, sh, d) ==
    IF sh[d + 1] = 1
    THEN [panic |-> FALSE, grad |-> float_sum_dim(g, d), summed |-> TRUE]
    ELSE IF sg[d + 1] # sh[d + 1]
         THEN [panic |-> TRUE, grad |-> g, summed |-> FALSE]
         ELSE [panic |-> FALSE, grad |-> g, summed |-> FALSE]

\* the body of the loop of broadcast_shape, for the 0-based dimension d
broadcast_shape_body(g, sg, sh, d) ==
    IF sg[d + 1] # sh[d + 1]
    THEN IF sh[d + 1] # 1
         THEN [panic |-> TRUE, grad |-> g, summed |-> FALSE]
         ELSE [panic |-> FALSE, grad |-> float_sum_dim(g, d), summed |-> TRUE]
    ELSE [panic |-> FALSE, grad |-> g, summed |-> FALSE]

BroadcastInit ==
    /\ PrepIdle
    /\ KernelIdle
    /\ \E d \in 1..MaxRank : \E gd \in Shapes(d), sh \in Shapes(d), seed \in GradSeeds :
          /\ grad = GradTensor(gd, seed)
          /\ bs_input = GradTensor(gd, seed)
          /\ shape = sh
          /\ shape_grad = <<>>
    /\ bs_i = 0
    /\ bs_pc = "entry"
    /\ bs_ret = None
    /\ sum_calls = <<>>

\* let shape_grad = B::float_shape(&grad)
broadcast_shape_entry ==
    /\ bs_pc = "entry"
    /\ shape_grad' = float_shape(grad)
    /\ bs_pc' = "loop"
    /\ UNCHANGED <<grad, shape, bs_i, bs_ret, bs_input, sum_calls, prepAll, kVars>>

\* one iteration of for i in 0..D
broadcast_shape_iter ==
    /\ bs_pc = "loop"
    /\ bs_i < Len(shape)
    /\ LET r == broadcast_shape_body(grad, shape_grad, shape, bs_i) IN
       /\ grad' = r.grad
       /\ bs_pc' = IF r.panic THEN "panicked" ELSE "loop"
       /\ bs_i' = IF r.panic THEN bs_i ELSE bs_i + 1
       /\ sum_calls' = IF r.summed THEN Append(sum_calls, bs_i) ELSE sum_calls
    /\ UNCHANGED <<shape, shape_grad, bs_ret, bs_input, prepAll, kVars>>

\* the loop is over: grad is returned
broadcast_shape_return ==
    /\ bs_pc = "loop"
    /\ bs_i = Len(shape)
    /\ bs_ret' = Some(grad)
    /\ bs_pc' = "returned"
    /\ UNCHANGED <<grad, shape, shape_grad, bs_i, bs_input, sum_calls, prepAll, kVars>>

BroadcastNext ==
    \/ broadcast_shape_entry
    \/ broadcast_shape_iter
    \/ broadcast_shape_return

SpecBroadcast == BroadcastInit /\ [][BroadcastNext]_vars

(***************************************************************************)
(* Helpers of the properties of broadcast_shape.                           *)
(***************************************************************************)
\* the dimensions (1-based) where the gradient handed in and the target differ
Differing == {k \in 1..Len(shape) : bs_input.dims[k] # shape[k]}

\* every differing dimension has target extent 1
Reducible == \A k \in Differing : shape[k] = 1

\* the sum of the values of data over a finite set of indices
RECURSIVE SumOver(_, _)
SumOver(data, S) ==
    IF S = {} THEN 0
    ELSE LET x == CHOOSE y \in S : TRUE
         IN  data[x] + SumOver(data, S \ {x})

\* the sum of the gradient handed in over all the differing dimensions at once
ReducedAt(idx) ==
    SumOver(bs_input.data,
            {j \in Indices(bs_input.dims) :
                \A k \in 1..Len(shape) : k \notin Differing => j[k] = idx[k]})

(***************************************************************************)
(* C11: whenever every dimension has equal extents or target extent 1,     *)
(* broadcast_shape returns a tensor whose shape is the target shape and    *)
(* whose value at each index is the sum of grad over all the dimensions    *)
(* where the extents differed, also when several dimensions are reduced in *)
(* the same call.                                                          *)
(***************************************************************************)
C11_BroadcastReduces ==
    Reducible =>
        /\ bs_pc # "panicked"
        /\ bs_pc = "returned" =>
              /\ bs_ret # None
              /\ float_shape(bs_ret[1]) = shape
              /\ DOMAIN bs_ret[1].data = Indices(shape)
              /\ \A idx \in Indices(shape) : bs_ret[1].data[idx] = ReducedAt(idx)

C11_Witness ==
    /\ bs_pc = "returned"
    /\ bs_input.dims = <<2, 2, 2>>
    /\ shape = <<1, 2, 1>>
    /\ bs_input.data[<<0, 0, 0>>] = 1
    /\ bs_ret[1].data[<<0, 1, 0>>] = 246
    /\ sum_calls = <<0, 2>>

(***************************************************************************)
(* C12: broadcast_shape panics and returns no tensor whenever some         *)
(* dimension has differing extents and a target extent other than 1 (the   *)
(* gradient extent being 1 included), wherever that dimension is and       *)
(* whatever was reduced before it; no truncated or partly reduced result   *)
(* is returned.                                                            *)
(***************************************************************************)
\* the first (1-based) dimension that cannot be reduced
FirstBad == CHOOSE k \in Differing : shape[k] # 1 /\ \A j \in Differing : shape[j] # 1 => k <= j

C12_BroadcastPanics ==
    ~Reducible =>
        /\ bs_pc # "returned"
        /\ bs_ret = None
        /\ bs_i <= FirstBad - 1
        /\ bs_pc = "panicked" => bs_i = FirstBad - 1

C12_Witness ==
    /\ bs_pc = "panicked"
    /\ bs_input.dims = <<2, 1, 2>>
    /\ shape = <<1, 2, 2>>
    /\ sum_calls = <<0>>
    /\ bs_ret = None

(***************************************************************************)
(* The tiling2d cube kernel: write_to_output and the functions it calls.   *)
(* A store is a record [index, value]: index is the position in the output *)
(* in units of the vectorization factor, value the lanes stored.           *)
(***************************************************************************)
\* the wrap of UInt differences; stands for 2^32, above every value used here
UIntWrap == 2147483647

\* a - b on UInt
UInt_sub(a, b) == IF a >= b THEN a - b ELSE UIntWrap - (b - a)

\* UInt::min
UInt_min(a, b) == IF a <= b THEN a ELSE b

\* the iterations of a loop expanded one by one when the kernel is compiled
RECURSIVE range_unrolled(_, _)
range_unrolled(lo, hi) ==
    IF lo >= hi THEN <<>> ELSE <<lo>> \o range_unrolled(lo + 1, hi)

\* the iterations of a loop run on the device
range_loop(lo, hi) == [k \in 1..(hi - lo) |-> lo + k - 1]

\* range(lo, hi, unroll): the values the loop variable takes, in order
range(lo, hi, unroll) ==
    IF unroll THEN range_unrolled(lo, hi) ELSE range_loop(lo, hi)

\* results[k] of the 0-based Array
At(res, k) == res[k + 1]

\* the concatenation of a sequence of sequences
RECURSIVE Flatten(_)
Flatten(ss) == IF ss = <<>> THEN <<>> ELSE Head(ss) \o Flatten(Tail(ss))

\* write_within_vector with the lanes of a group read from the start of the row
write_within_vector_first(ot, i, out_position, res, results_pos_m, cfg) ==
    LET v == ot.vectorization IN
    IF v = 1
    THEN [index |-> i + out_position, value |-> <<At(res, results_pos_m)>>]
    ELSE [index |-> i + out_position \div v,
          value |-> [j \in 1..v |-> At(res, results_pos_m + (j - 1))]]

\* write_within_vector with the group index added before the division
write_within_vector_early(ot, i, out_position, res, results_pos_m, cfg) ==
    LET v == ot.vectorization IN
    IF v = 1
    THEN [index |-> i + out_position, value |-> <<At(res, results_pos_m + i)>>]
    ELSE [index |-> (i + out_position) \div v,
          value |-> [j \in 1..v |-> At(res, results_pos_m + (i * v + (j - 1)))]]

\* output_elem after the loop over the lanes js: zero where no lane was set
output_elem(res, results_pos_m, i, v, js) ==
    [l \in 1..v |->
        IF \E k \in 1..Len(js) : js[k] = l - 1
        THEN At(res, results_pos_m + (i * v + (l - 1)))
        ELSE 0]

\* write_within_vector whose unrolled loop over the lanes stops one lane early
write_within_vector_short(ot, i, out_position, res, results_pos_m, cfg) ==
    LET v == ot.vectorization IN
    IF v = 1
    THEN [index |-> i + out_position, value |-> <<At(res, results_pos_m + i)>>]
    ELSE [index |-> i + out_position \div v,
          value |-> output_elem(res, results_pos_m, i, v,
                        range(0, IF cfg.unroll THEN v - 1 ELSE v, cfg.unroll))]

\* write_within_vector: the store of group i of one tile row
write_within_vector(ot, i, out_position, res, results_pos_m, cfg) ==
    LET v == ot.vectorization IN
    IF v = 1
    THEN [index |-> i + out_position, value |-> <<At(res, results_pos_m + i)>>]
    ELSE [index |-> i + out_position \div v,
          value |-> output_elem(res, results_pos_m, i, v, range(0, v, cfg.unroll))]

\* the number of groups of a tile row when only whole tiles are stored
num_loops_whole(ot, col, cfg) ==
    LET v == ot.vectorization
        dim_n == ot.shape[2]
    IN  IF cfg.check_n_bounds
        THEN IF dim_n >= col + cfg.tile_size
             THEN cfg.tile_size \div v
             ELSE 0
        ELSE cfg.tile_size \div v

\* the number of groups of a tile row without the guard dim_n > col
num_loops_unguarded(ot, col, cfg) ==
    LET v == ot.vectorization
        dim_n == ot.shape[2]
    IN  IF cfg.check_n_bounds
        THEN UInt_min(UInt_sub(dim_n, col), cfg.tile_size) \div v
        ELSE cfg.tile_size \div v

\* the number of groups write_results_inner_loop stores for a tile row
num_loops(ot, col, cfg) ==
    LET v == ot.vectorization
        dim_n == ot.shape[2]
    IN  IF cfg.check_n_bounds
        THEN IF dim_n > col
             THEN UInt_min(UInt_sub(dim_n, col), cfg.tile_size) \div v
             ELSE 0
        ELSE cfg.tile_size \div v

\* write_results_inner_loop with the destination of the first tile row
write_results_inner_loop_flat(ot, res, res_idx_m, row, col, off, out_stride_row, cfg) ==
    LET results_pos_m == res_idx_m * cfg.tile_size
        out_position == row * out_stride_row + col + off
        groups == range(0, num_loops(ot, col, cfg),
                        IF cfg.check_n_bounds THEN FALSE ELSE cfg.unroll)
    IN  [k \in 1..Len(groups) |->
            write_within_vector(ot, groups[k], out_position, res, results_pos_m, cfg)]

\* write_results_inner_loop: the stores of tile row res_idx_m, in order
write_results_inner_loop(ot, res, res_idx_m, row, col, off, out_stride_row, cfg) ==
    LET results_pos_m == res_idx_m * cfg.tile_size
        out_position == (row + res_idx_m) * out_stride_row + col + off
        groups == range(0, num_loops(ot, col, cfg),
                        IF cfg.check_n_bounds THEN FALSE ELSE cfg.unroll)
    IN  [k \in 1..Len(groups) |->
            write_within_vector(ot, groups[k], out_position, res, results_pos_m, cfg)]

\* the tile rows visited when the last row of the extent is left out
write_results_rows_exclusive(ot, row, cfg) ==
    IF cfg.check_m_bounds
    THEN LET dim_m == ot.shape[1]
             num_writes == IF dim_m > row
                           THEN UInt_min(UInt_sub(dim_m, row) - 1, cfg.tile_size)
                           ELSE 0
         IN  range(0, num_writes, FALSE)
    ELSE range(0, cfg.tile_size, cfg.unroll)

\* the tile rows visited without the guard dim_m > row
write_results_rows_unguarded(ot, row, cfg) ==
    IF cfg.check_m_bounds
    THEN range(0, UInt_min(UInt_sub(ot.shape[1], row), cfg.tile_size), FALSE)
    ELSE range(0, cfg.tile_size, cfg.unroll)

\* the tile rows write_results visits, in order (tile size above 1)
write_results_rows(ot, row, cfg) ==
    IF cfg.check_m_bounds
    THEN LET dim_m == ot.shape[1]
             num_writes == IF dim_m > row
                           THEN UInt_min(UInt_sub(dim_m, row), cfg.tile_size)
                           ELSE 0
         IN  range(0, num_writes, FALSE)
    ELSE range(0, cfg.tile_size, cfg.unroll)

\* the store of write_results when the tile size is 1
write_results_scalar(ot, res, row, col, off, out_stride_row) ==
    [index |-> (row * out_stride_row + col + off) \div ot.vectorization,
     value |-> <<At(res, 0)>>]

\* write_results: all the stores of one unit, in order
write_results(ot, res, row, col, off, out_stride_row, cfg) ==
    IF cfg.tile_size = 1
    THEN <<write_results_scalar(ot, res, row, col, off, out_stride_row)>>
    ELSE LET rows == write_results_rows(ot, row, cfg)
         IN  Flatten([k \in 1..Len(rows) |->
                 write_results_inner_loop(ot, res, rows[k], row, col, off,
                                          out_stride_row, cfg)])

\* out.stride(out.rank() - 2)
stride_row(ot) == ot.stride

\* write_to_output: row and col from the coordinates, then write_results
write_to_output(ot, res, coord, off, cfg) ==
    write_results(ot, res, coord.skip_row + coord.unit_row,
                  coord.skip_col + coord.unit_col, off, stride_row(ot), cfg)

\* the largest extent of the output and the largest tile origin
MaxExtent == 4

\* the tile sizes and the vectorization factors of the specializations
TileSizes == {1, 2, 4}
Vectorizations == {1, 2, 4}

\* the batches of the output tensor
NumBatches == 2

\* the tile of unit u: results[k] = k + 1 (+ 100 per unit), as arange does
Tile(t, u) == [k \in 1..(t * t) |-> k + 100 * (u - 1)]

\* the Coordinates of a unit whose tile origin is (row, col)
Coordinates(row, col, t) ==
    [unit_row |-> row % t, unit_col |-> col % t,
     skip_row |-> row - (row % t), skip_col |-> col - (col % t)]

\* a zeroed output tensor of NumBatches batches of dim_m rows
Tensor_zeros(dim_m, dim_n, stride, v) ==
    [shape |-> <<dim_m, dim_n>>, stride |-> stride, vectorization |-> v,
     data |-> [e \in 1..(NumBatches * dim_m * stride) |-> 0]]

\* the specializations the launcher builds: a bound is left unchecked only
\* when the tile cannot overhang it
KernelConfigs(dim_m, dim_n, row, col) ==
    {c \in [tile_size : TileSizes, unroll : BOOLEAN,
            check_m_bounds : BOOLEAN, check_n_bounds : BOOLEAN] :
        /\ ~c.check_m_bounds => row + c.tile_size <= dim_m
        /\ ~c.check_n_bounds => col + c.tile_size <= dim_n}

\* a unit that has not entered write_to_output
UnitEntry == [stage |-> "entry", rows |-> <<>>, todo |-> <<>>, visited |-> <<>>]

KernelInit ==
    /\ PrepIdle
    /\ BroadcastIdle
    /\ \E dim_m \in 1..MaxExtent, dim_n \in 1..MaxExtent, v \in Vectorizations,
          pad \in 0..1, batch \in 0..(NumBatches - 1),
          row \in 0..MaxExtent, col \in 0..MaxExtent :
          /\ dim_n % v = 0
          /\ \E c \in KernelConfigs(dim_m, dim_n, row, col) :
                /\ config = c
                /\ coordinates = <<Coordinates(row, col, c.tile_size)>>
                /\ results = <<Tile(c.tile_size, 1)>>
          /\ out_tensor = Tensor_zeros(dim_m, dim_n, dim_n + pad * v, v)
          /\ offset_output = batch * dim_m * (dim_n + pad * v)
    /\ unit_state = <<UnitEntry>>
    /\ stores = <<>>

\* the row and the column of the tile origin of unit u
RowOf(u) == coordinates[u].skip_row + coordinates[u].unit_row
ColOf(u) == coordinates[u].skip_col + coordinates[u].unit_col

\* unit u enters write_to_output and write_results
write_to_output_entry(u) ==
    /\ unit_state[u].stage = "entry"
    /\ unit_state' = [unit_state EXCEPT ![u] =
          IF config.tile_size = 1
          THEN [stage |-> "loop", rows |-> <<>>, visited |-> <<>>,
                todo |-> write_to_output(out_tensor, results[u], coordinates[u],
                                         offset_output, config)]
          ELSE [stage |-> "loop", visited |-> <<>>, todo |-> <<>>,
                rows |-> write_results_rows(out_tensor, RowOf(u), config)]]
    /\ UNCHANGED <<config, out_tensor, offset_output, coordinates, results,
                   stores, bsVars, prepAll>>

\* unit u calls write_results_inner_loop for the next tile row
write_results_next_row(u) ==
    /\ unit_state[u].stage = "loop"
    /\ unit_state[u].todo = <<>>
    /\ unit_state[u].rows # <<>>
    /\ LET res_idx_m == Head(unit_state[u].rows) IN
       unit_state' = [unit_state EXCEPT ![u] =
          [stage |-> "loop", rows |-> Tail(unit_state[u].rows),
           visited |-> Append(unit_state[u].visited, res_idx_m),
           todo |-> write_results_inner_loop(out_tensor, results[u], res_idx_m,
                        RowOf(u), ColOf(u), offset_output,
                        stride_row(out_tensor), config)]]
    /\ UNCHANGED <<config, out_tensor, offset_output, coordinates, results,
                   stores, bsVars, prepAll>>

\* the number of positions of the output, in units of the vectorization factor
NumSlots(ot) == Len(ot.data) \div ot.vectorization

\* the data after the lanes are put at position slot
PutLanes(ot, slot, lanes) ==
    [e \in 1..Len(ot.data) |->
        IF (e - 1) \div ot.vectorization = slot
        THEN lanes[((e - 1) % ot.vectorization) + 1]
        ELSE ot.data[e]]

\* where a store to an index outside the buffer may land: nowhere, or clamped
OutOfBufferOutcomes(ot) == {None, Some(NumSlots(ot) - 1)}

\* the lanes a single scalar may leave in a position of several lanes
ScalarLanes(ot, slot, x) ==
    {[j \in 1..ot.vectorization |-> x],
     [j \in 1..ot.vectorization |->
         IF j = 1 THEN x ELSE ot.data[slot * ot.vectorization + j]]}

\* unit u issues its next store: out[index] = value
unit_store(u) ==
    /\ unit_state[u].stage = "loop"
    /\ unit_state[u].todo # <<>>
    /\ LET st == Head(unit_state[u].todo)
           v == out_tensor.vectorization
           inside == st.index < NumSlots(out_tensor)
       IN  \E landed \in IF inside THEN {Some(st.index)}
                         ELSE OutOfBufferOutcomes(out_tensor) :
              /\ IF landed = None
                 THEN UNCHANGED out_tensor
                 ELSE \E lanes \in IF Len(st.value) = v THEN {st.value}
                                   ELSE ScalarLanes(out_tensor, landed[1], st.value[1]) :
                         out_tensor' = [out_tensor EXCEPT
                             !.data = PutLanes(out_tensor, landed[1], lanes)]
              /\ stores' = Append(stores,
                     [unit |-> u, index |-> st.index, value |-> st.value,
                      landed |-> landed,
                      res_idx_m |-> IF unit_state[u].visited = <<>> THEN 0
                                    ELSE unit_state[u].visited[Len(unit_state[u].visited)]])
    /\ unit_state' = [unit_state EXCEPT ![u].todo = Tail(unit_state[u].todo)]
    /\ UNCHANGED <<config, offset_output, coordinates, results, bsVars, prepAll>>

\* unit u leaves write_to_output
write_to_output_exit(u) ==
    /\ unit_state[u].stage = "loop"
    /\ unit_state[u].todo = <<>>
    /\ unit_state[u].rows = <<>>
    /\ unit_state' = [unit_state EXCEPT ![u].stage = "done"]
    /\ UNCHANGED <<config, out_tensor, offset_output, coordinates, results,
                   stores, bsVars, prepAll>>

KernelNext ==
    \E u \in DOMAIN unit_state :
        \/ write_to_output_entry(u)
        \/ write_results_next_row(u)
        \/ unit_store(u)
        \/ write_to_output_exit(u)

SpecKernel == KernelInit /\ [][KernelNext]_vars

(***************************************************************************)
(* Helpers of the properties of the kernel.                                *)
(***************************************************************************)
\* unit u has left write_to_output
UnitDone(u) == unit_state[u].stage = "done"

\* the 0-based flat element index of row r, column c of the batch written
FlatIndex(r, c) == r * out_tensor.stride + c + offset_output

\* the element at a 0-based flat element index
Elem(e) == out_tensor.data[e + 1]

\* the 0-based flat element indices of the buffer
Elems == 0..(Len(out_tensor.data) - 1)

\* the tile of unit u lies entirely inside the output
TileFits(u) ==
    /\ RowOf(u) + config.tile_size <= out_tensor.shape[1]
    /\ ColOf(u) + config.tile_size <= out_tensor.shape[2]

\* the vectorization factor divides the tile size
WidthDividesTile == config.tile_size % out_tensor.vectorization = 0

\* the destination of every tile row of unit u is a multiple of the
\* vectorization factor
RowsAligned(u) ==
    \A r \in 0..(config.tile_size - 1) :
        FlatIndex(RowOf(u) + r, ColOf(u)) % out_tensor.vectorization = 0

\* the output holds the first nr rows and nc columns of the tile of unit u
\* at the tile's position and its initial zeros everywhere else
HoldsBlock(u, nr, nc) ==
    \A e \in Elems :
        Elem(e) = IF \E r \in 0..(nr - 1), c \in 0..(nc - 1) :
                        e = FlatIndex(RowOf(u) + r, ColOf(u) + c)
                  THEN LET rc == CHOOSE rc \in (0..(nr - 1)) \X (0..(nc - 1)) :
                                    e = FlatIndex(RowOf(u) + rc[1], ColOf(u) + rc[2])
                       IN  At(results[u], rc[1] * config.tile_size + rc[2])
                  ELSE 0

(***************************************************************************)
(* C13 as stated: for a tile of size T > 1 lying entirely inside the       *)
(* output, with the vector width dividing T, after write_results every     *)
(* element (row + r, col + c) equals results[r*T + c] and every other      *)
(* element keeps its previous value.                                       *)
(***************************************************************************)
C13_Original ==
    \A u \in DOMAIN unit_state :
        (UnitDone(u) /\ config.tile_size > 1 /\ WidthDividesTile /\ TileFits(u))
            => HoldsBlock(u, config.tile_size, config.tile_size)

(***************************************************************************)
(* C13: for a tile of size T > 1 lying entirely inside the output, with    *)
(* the vector width v dividing T and the destination of every tile row a   *)
(* multiple of v, after write_results every element (row + r, col + c)     *)
(* equals results[r*T + c] and every other element keeps its previous      *)
(* value.                                                                  *)
(***************************************************************************)
C13_FullTileAligned ==
    \A u \in DOMAIN unit_state :
        (UnitDone(u) /\ config.tile_size > 1 /\ WidthDividesTile /\ TileFits(u)
            /\ RowsAligned(u))
            => HoldsBlock(u, config.tile_size, config.tile_size)

C13_Witness ==
    /\ UnitDone(1)
    /\ config.tile_size = 4
    /\ out_tensor.vectorization = 2
    /\ out_tensor.stride = 6
    /\ offset_output = 24
    /\ RowOf(1) = 0
    /\ ColOf(1) = 0
    /\ Len(stores) = 8
    /\ Elem(FlatIndex(3, 2)) = 15

\* min(extent_m - row, T) when row < extent_m, else 0
RowsToWrite(u) ==
    IF RowOf(u) < out_tensor.shape[1]
    THEN UInt_min(out_tensor.shape[1] - RowOf(u), config.tile_size)
    ELSE 0

\* the sequence 0, 1, .. n - 1
UpTo(n) == [k \in 1..n |-> k - 1]

(***************************************************************************)
(* C14: with check_m_bounds enabled and tile size T > 1, write_results     *)
(* visits exactly the tile rows 0 .. rows_to_write - 1, in order, where    *)
(* rows_to_write = min(extent_m - row, T) when row < extent_m and 0 when   *)
(* row >= extent_m; every store belongs to one of these rows, and the      *)
(* cells of the skipped tile rows keep their initial value.                *)
(***************************************************************************)
C14_RowBounds ==
    \A u \in DOMAIN unit_state :
        (config.check_m_bounds /\ config.tile_size > 1
            /\ unit_state[u].stage # "entry") =>
            /\ unit_state[u].visited \o unit_state[u].rows = UpTo(RowsToWrite(u))
            /\ UnitDone(u) => unit_state[u].visited = UpTo(RowsToWrite(u))
            /\ \A k \in 1..Len(stores) :
                  stores[k].unit = u => stores[k].res_idx_m < RowsToWrite(u)
            /\ \A r \in RowsToWrite(u)..(config.tile_size - 1),
                  c \in 0..(config.tile_size - 1) :
                  FlatIndex(RowOf(u) + r, ColOf(u) + c) \in Elems
                      => Elem(FlatIndex(RowOf(u) + r, ColOf(u) + c)) = 0

C14_Witness ==
    /\ UnitDone(1)
    /\ config.check_m_bounds
    /\ config.tile_size = 4
    /\ out_tensor.shape = <<3, 4>>
    /\ out_tensor.vectorization = 2
    /\ RowOf(1) = 1
    /\ ColOf(1) = 0
    /\ unit_state[1].visited = <<0, 1>>
    /\ Len(stores) = 4
    /\ Elem(FlatIndex(2, 3)) = 8
    /\ Elem(FlatIndex(3, 0)) = 0

\* floor(min(extent_n - col, T) / v) when col < extent_n, else 0
GroupsToWrite(u) ==
    IF ColOf(u) < out_tensor.shape[2]
    THEN UInt_min(out_tensor.shape[2] - ColOf(u), config.tile_size)
             \div out_tensor.vectorization
    ELSE 0

\* the number of stores unit u has issued for tile row r
StoresOfRow(u, r) ==
    Cardinality({k \in 1..Len(stores) :
                    stores[k].unit = u /\ stores[k].res_idx_m = r})

(***************************************************************************)
(* C15: with check_n_bounds enabled, every call of                         *)
(* write_results_inner_loop for a tile row stores exactly                  *)
(* floor(min(extent_n - col, T) / v) groups when col < extent_n and none   *)
(* when col >= extent_n; a tile placed at col >= extent_n leaves the whole *)
(* output unchanged.                                                       *)
(***************************************************************************)
C15_ColumnBounds ==
    \A u \in DOMAIN unit_state :
        (config.check_n_bounds /\ config.tile_size > 1) =>
            /\ \A k \in 1..Len(unit_state[u].visited) :
                  StoresOfRow(u, unit_state[u].visited[k])
                      + (IF k = Len(unit_state[u].visited)
                         THEN Len(unit_state[u].todo) ELSE 0)
                  = GroupsToWrite(u)
            /\ ColOf(u) >= out_tensor.shape[2] =>
                  /\ stores = <<>>
                  /\ \A e \in Elems : Elem(e) = 0

C15_Witness ==
    /\ UnitDone(1)
    /\ config.check_n_bounds
    /\ config.tile_size = 4
    /\ out_tensor.vectorization = 2
    /\ out_tensor.shape = <<4, 4>>
    /\ RowOf(1) = 0
    /\ ColOf(1) = 1
    /\ unit_state[1].visited = <<0, 1, 2, 3>>
    /\ Len(stores) = 4

\* the 0-based flat element indices a store targets
Targets(st) ==
    {st.index * out_tensor.vectorization + j :
        j \in 0..(out_tensor.vectorization - 1)}

\* a flat element index lies in the batch written, inside the true extent
InsideExtent(e) ==
    /\ e >= offset_output
    /\ (e - offset_output) \div out_tensor.stride < out_tensor.shape[1]
    /\ (e - offset_output) % out_tensor.stride < out_tensor.shape[2]

(***************************************************************************)
(* C16: with row- and column-bounds checking enabled, for every tile size, *)
(* vector width and tile position, no store targets a position whose row   *)
(* is >= extent_m or whose column is >= extent_n, nor a flat index outside *)
(* the output buffer, and no cell beyond the true extent is changed.       *)
(***************************************************************************)
C16_AbsentWrites ==
    (config # None /\ config.check_m_bounds /\ config.check_n_bounds) =>
        /\ \A k \in 1..Len(stores) :
              /\ stores[k].index < NumSlots(out_tensor)
              /\ \A e \in Targets(stores[k]) : InsideExtent(e)
        /\ \A e \in Elems : ~InsideExtent(e) => Elem(e) = 0

\* the same for the tile sizes above 1 only
AbsentWritesAboveOne ==
    (config # None /\ config.tile_size > 1) => C16_AbsentWrites

(***************************************************************************)
(* Two units of one cube run write_to_output on the same output, their     *)
(* stores interleaved in any order.  The tile origins are distinct         *)
(* multiples of the tile size and both bounds are checked.                 *)
(***************************************************************************)
\* the multiples of t up to MaxExtent
Origins(t) == {x \in 0..MaxExtent : x % t = 0}

UnitsInit ==
    /\ PrepIdle
    /\ BroadcastIdle
    /\ \E dim_m \in 1..MaxExtent, dim_n \in 1..MaxExtent, v \in Vectorizations,
          pad \in 0..1, batch \in 0..(NumBatches - 1), t \in TileSizes :
          /\ dim_n % v = 0
          /\ config = [tile_size |-> t, unroll |-> FALSE,
                       check_m_bounds |-> TRUE, check_n_bounds |-> TRUE]
          /\ \E r1 \in Origins(t), c1 \in Origins(t),
                r2 \in Origins(t), c2 \in Origins(t) :
                /\ r1 < r2 \/ (r1 = r2 /\ c1 < c2)
                /\ coordinates = <<Coordinates(r1, c1, t), Coordinates(r2, c2, t)>>
          /\ results = <<Tile(t, 1), Tile(t, 2)>>
          /\ out_tensor = Tensor_zeros(dim_m, dim_n, dim_n + pad * v, v)
          /\ offset_output = batch * dim_m * (dim_n + pad * v)
    /\ unit_state = <<UnitEntry, UnitEntry>>
    /\ stores = <<>>

SpecUnits == UnitsInit /\ [][KernelNext]_vars

\* the data after the stores of a sequence are done one after the other,
\* every store landing where it is issued
RECURSIVE DataAfter(_, _)
DataAfter(ot, sts) ==
    IF sts = <<>> THEN ot.data
    ELSE DataAfter([ot EXCEPT !.data = PutLanes(ot, Head(sts).index, Head(sts).value)],
                   Tail(sts))

\* the output with its initial zeros
Zeroed == [out_tensor EXCEPT !.data = [e \in 1..Len(out_tensor.data) |-> 0]]

\* the stores of unit u from entry to exit
StoresOfUnit(u) ==
    write_to_output(out_tensor, results[u], coordinates[u], offset_output, config)

(***************************************************************************)
(* C17: for units whose tile origins are distinct multiples of the tile    *)
(* size, run with bounds checking on an output with row stride >=          *)
(* extent_n, two different units never store to a common address, and the  *)
(* final output is the same for every interleaving of their stores.        *)
(***************************************************************************)
C17_RaceFree ==
    Len(unit_state) = 2 =>
        /\ \A k, l \in 1..Len(stores) :
              stores[k].unit # stores[l].unit =>
                  /\ stores[k].index # stores[l].index
                  /\ stores[k].landed = None \/ stores[k].landed # stores[l].landed
        /\ (UnitDone(1) /\ UnitDone(2)) =>
              out_tensor.data = DataAfter(Zeroed, StoresOfUnit(1) \o StoresOfUnit(2))

\* the same for the tile sizes above 1 only
RaceFreeAboveOne ==
    (config # None /\ config.tile_size > 1) => C17_RaceFree

\* the output seen with vectorization factor w
WithWidth(ot, w) == [ot EXCEPT !.vectorization = w]

\* the output can be vectorized by w and the destination of every tile row
\* of unit u is a multiple of w
WidthFits(u, w) ==
    /\ config.tile_size % w = 0
    /\ out_tensor.shape[2] % w = 0
    /\ out_tensor.stride % w = 0
    /\ \A r \in 0..(config.tile_size - 1) :
          FlatIndex(RowOf(u) + r, ColOf(u)) % w = 0

\* the data write_to_output leaves when run by unit u alone with
\* vectorization factor w on the zeroed output
DataWithWidth(u, w) ==
    DataAfter(WithWidth(Zeroed, w),
              write_to_output(WithWidth(out_tensor, w), results[u],
                              coordinates[u], offset_output, config))

(***************************************************************************)
(* C18: for the same tile, tile position and output, the elements of the   *)
(* output after write_results are the same for every vector width that     *)
(* divides the tile size, provided the tile fits and the destination       *)
(* offset is a multiple of the width.                                      *)
(***************************************************************************)
C18_WidthIndependent ==
    \A u \in DOMAIN unit_state :
        (Len(unit_state) = 1 /\ UnitDone(u) /\ TileFits(u)
            /\ WidthFits(u, out_tensor.vectorization)) =>
            \A w \in Vectorizations :
                WidthFits(u, w) => out_tensor.data = DataWithWidth(u, w)

C18_Witness ==
    /\ Len(unit_state) = 1
    /\ UnitDone(1)
    /\ TileFits(1)
    /\ config.tile_size = 4
    /\ out_tensor.vectorization = 4
    /\ offset_output > 0
    /\ Len(stores) = 4
    /\ WidthFits(1, 1) /\ WidthFits(1, 2)
    /\ Len(write_to_output(WithWidth(out_tensor, 2), results[1], coordinates[1],
                           offset_output, config)) = 8
    /\ out_tensor.data = DataWithWidth(1, 1)

\* the index of the store of the tile-size-1 branch of unit u
ScalarIndex(u) ==
    FlatIndex(RowOf(u), ColOf(u)) \div out_tensor.vectorization

(***************************************************************************)
(* C19: when the tile size is 1, write_results performs exactly one store  *)
(* and no loop: it writes results[0] at index                              *)
(* (row * out_stride_row + col + offset_output) / vector_width and leaves  *)
(* every other output element unchanged.                                   *)
(***************************************************************************)
C19_FastPath ==
    \A u \in DOMAIN unit_state :
        (Len(unit_state) = 1 /\ config.tile_size = 1 /\ UnitDone(u)) =>
            /\ Len(stores) = 1
            /\ unit_state[u].visited = <<>>
            /\ stores[1].index = ScalarIndex(u)
            /\ stores[1].value = <<At(results[u], 0)>>
            /\ \A e \in Elems :
                  e \div out_tensor.vectorization # ScalarIndex(u) => Elem(e) = 0

\* the same when the index of the store is inside the buffer
FastPathInsideBuffer ==
    (config # None /\ Len(unit_state) = 1
        /\ ScalarIndex(1) < NumSlots(out_tensor)) => C19_FastPath

\* the group index of the k-th store: the stores of its unit for its tile
\* row issued before it
GroupOf(k) ==
    Cardinality({l \in 1..(k - 1) :
                    /\ stores[l].unit = stores[k].unit
                    /\ stores[l].res_idx_m = stores[k].res_idx_m})

\* the destination of the tile row of the k-th store
OutPosition(k) ==
    FlatIndex(RowOf(stores[k].unit) + stores[k].res_idx_m, ColOf(stores[k].unit))

\* the k-th store has the index the code computes and lands there
IndexAsComputed(k) ==
    LET v == out_tensor.vectorization IN
    /\ stores[k].index = IF v = 1 THEN OutPosition(k) + GroupOf(k)
                         ELSE GroupOf(k) + OutPosition(k) \div v
    /\ stores[k].landed = Some(stores[k].index)

(***************************************************************************)
(* C20 as stated: the store for tile row r and group i targets flat        *)
(* element index (row + r) * out_stride_row + col + offset_output (+ i for *)
(* scalar stores); a vectorized store of width v has position              *)
(* i + ((row + r) * out_stride_row + col + offset_output) / v, and lane j  *)
(* of group i lands on element                                             *)
(* (row + r) * out_stride_row + col + offset_output + i*v + j for every    *)
(* tile position.                                                          *)
(***************************************************************************)
C20_Original ==
    (config # None /\ config.tile_size > 1) =>
        \A k \in 1..Len(stores) :
            /\ IndexAsComputed(k)
            /\ \A j \in 0..(out_tensor.vectorization - 1) :
                  stores[k].landed[1] * out_tensor.vectorization + j
                      = OutPosition(k) + GroupOf(k) * out_tensor.vectorization + j

(***************************************************************************)
(* C20: the store for tile row r and group i has index                     *)
(* (row + r) * out_stride_row + col + offset_output + i when stores are    *)
(* scalar and i + ((row + r) * out_stride_row + col + offset_output) / v   *)
(* when they have width v; lane j of group i lands on element              *)
(* v * floor(((row + r) * out_stride_row + col + offset_output) / v)       *)
(* + i*v + j, which is (row + r) * out_stride_row + col + offset_output    *)
(* + i*v + j exactly when that destination is a multiple of v.             *)
(***************************************************************************)
C20_DestinationIndex ==
    (config # None /\ config.tile_size > 1) =>
        \A k \in 1..Len(stores) :
            LET v == out_tensor.vectorization
                down == (OutPosition(k) \div v) * v
            IN  /\ IndexAsComputed(k)
                /\ \A j \in 0..(v - 1) :
                      /\ stores[k].landed[1] * v + j = down + GroupOf(k) * v + j
                      /\ OutPosition(k) % v = 0 <=>
                            stores[k].landed[1] * v + j
                                = OutPosition(k) + GroupOf(k) * v + j
                /\ stores[k].value =
                      [j \in 1..v |-> At(results[stores[k].unit],
                          stores[k].res_idx_m * config.tile_size
                              + GroupOf(k) * v + (j - 1))]

C20_Witness ==
    /\ Len(unit_state) = 1
    /\ UnitDone(1)
    /\ config.tile_size = 4
    /\ out_tensor.vectorization = 2
    /\ out_tensor.stride = 6
    /\ RowOf(1) = 0
    /\ ColOf(1) = 1
    /\ offset_output = 24
    /\ Len(stores) = 4
    /\ stores[4].res_idx_m = 3
    /\ OutPosition(4) = 43
    /\ stores[4].index = 21
    /\ Elem(42) = 13
    /\ Elem(43) = 14

\* the number of stores that landed on the 0-based flat element index e
WritesTo(e) ==
    Cardinality({k \in 1..Len(stores) :
                    /\ stores[k].landed # None
                    /\ e \div out_tensor.vectorization = stores[k].landed[1]})

\* every element of the tile of unit u whose destination is inside the
\* extent was written once and holds its value of the tile
InsideWritten(u) ==
    \A r \in 0..(config.tile_size - 1), c \in 0..(config.tile_size - 1) :
        (RowOf(u) + r < out_tensor.shape[1] /\ ColOf(u) + c < out_tensor.shape[2])
            => /\ WritesTo(FlatIndex(RowOf(u) + r, ColOf(u) + c)) = 1
               /\ Elem(FlatIndex(RowOf(u) + r, ColOf(u) + c))
                      = At(results[u], r * config.tile_size + c)

(***************************************************************************)
(* C21 as stated: with row- and column-bounds checking enabled, for every  *)
(* tile position and every vector width dividing the tile size, every tile *)
(* element whose destination (row + r, col + c) lies inside the extent is  *)
(* written exactly once with results[r*T + c].                             *)
(***************************************************************************)
C21_Original ==
    \A u \in DOMAIN unit_state :
        (Len(unit_state) = 1 /\ UnitDone(u) /\ WidthDividesTile
            /\ config.check_m_bounds /\ config.check_n_bounds)
            => InsideWritten(u)

(***************************************************************************)
(* C21: with row- and column-bounds checking enabled, for every vector     *)
(* width v dividing the tile size and every tile position where the        *)
(* destination of each tile row is a multiple of v, every tile element     *)
(* whose destination (row + r, col + c) lies inside the extent is written  *)
(* exactly once with results[r*T + c].                                     *)
(***************************************************************************)
C21_CompleteAligned ==
    \A u \in DOMAIN unit_state :
        (Len(unit_state) = 1 /\ UnitDone(u) /\ WidthDividesTile
            /\ config.check_m_bounds /\ config.check_n_bounds /\ RowsAligned(u))
            => InsideWritten(u)

C21_Witness ==
    /\ Len(unit_state) = 1
    /\ UnitDone(1)
    /\ config.check_m_bounds /\ config.check_n_bounds
    /\ config.tile_size = 4
    /\ out_tensor.vectorization = 2
    /\ out_tensor.shape = <<3, 4>>
    /\ RowOf(1) = 1
    /\ ColOf(1) = 2
    /\ RowsAligned(1)
    /\ Len(stores) = 2
    /\ Elem(FlatIndex(2, 3)) = 6
    /\ WritesTo(FlatIndex(2, 3)) = 1

\* the configuration with the bounds checks set to cm and cn
WithChecks(cfg, cm, cn) ==
    [cfg EXCEPT !.check_m_bounds = cm, !.check_n_bounds = cn]

\* the stores issued so far by unit u, as [index, value], in order
RECURSIVE Issued(_, _)
Issued(u, k) ==
    IF k = 0 THEN <<>>
    ELSE IF stores[k].unit = u
         THEN Append(Issued(u, k - 1),
                     [index |-> stores[k].index, value |-> stores[k].value])
         ELSE Issued(u, k - 1)

(***************************************************************************)
(* C22: for every tile position with row + T <= extent_m and               *)
(* col + T <= extent_n and v dividing T, the four specializations          *)
(* check_m_bounds x check_n_bounds perform the same stores with the same   *)
(* values and leave the same final output.                                 *)
(***************************************************************************)
C22_ChecksAgree ==
    \A u \in DOMAIN unit_state :
        (Len(unit_state) = 1 /\ TileFits(u) /\ WidthDividesTile) =>
            \A cm \in BOOLEAN, cn \in BOOLEAN :
                LET other == write_to_output(out_tensor, results[u], coordinates[u],
                                 offset_output, WithChecks(config, cm, cn))
                IN  /\ other = StoresOfUnit(u)
                    /\ UnitDone(u) =>
                          /\ Issued(u, Len(stores)) = other
                          /\ out_tensor.data = DataAfter(Zeroed, other)

C22_Witness ==
    /\ Len(unit_state) = 1
    /\ UnitDone(1)
    /\ TileFits(1)
    /\ config.tile_size = 4
    /\ out_tensor.vectorization = 2
    /\ config.check_m_bounds /\ ~config.check_n_bounds
    /\ RowOf(1) = 0 /\ ColOf(1) = 0
    /\ Len(stores) = 8
    /\ Len(write_to_output(out_tensor, results[1], coordinates[1], offset_output,
                           WithChecks(config, FALSE, TRUE))) = 8

\* the configuration with the unroll flag set to b
WithUnroll(cfg, b) == [cfg EXCEPT !.unroll = b]

\* every store issued so far landed where it was issued, with its own lanes
LandedAsIssued ==
    \A k \in 1..Len(stores) :
        /\ stores[k].landed = Some(stores[k].index)
        /\ Len(stores[k].value) = out_tensor.vectorization

(***************************************************************************)
(* C23: for every configuration and input, the kernel with unroll = true   *)
(* and with unroll = false issues the same stores in the same row, group   *)
(* and lane order and leaves the same final output.                        *)
(***************************************************************************)
C23_UnrollIrrelevant ==
    \A u \in DOMAIN unit_state :
        Len(unit_state) = 1 =>
            \A b \in BOOLEAN :
                LET other == write_to_output(out_tensor, results[u], coordinates[u],
                                 offset_output, WithUnroll(config, b))
                IN  /\ other = StoresOfUnit(u)
                    /\ write_results_rows(out_tensor, RowOf(u), WithUnroll(config, b))
                           = write_results_rows(out_tensor, RowOf(u), config)
                    /\ UnitDone(u) =>
                          /\ Issued(u, Len(stores)) = other
                          /\ LandedAsIssued =>
                                out_tensor.data = DataAfter(Zeroed, other)

C23_Witness ==
    /\ Len(unit_state) = 1
    /\ UnitDone(1)
    /\ config.unroll
    /\ ~config.check_m_bounds /\ ~config.check_n_bounds
    /\ config.tile_size = 4
    /\ out_tensor.vectorization = 2
    /\ Len(stores) = 8
    /\ stores[8].value = <<15, 16>>
    /\ LandedAsIssued
    /\ Issued(1, 8) = write_to_output(out_tensor, results[1], coordinates[1],
                                      offset_output, WithUnroll(config, FALSE))

(***************************************************************************)
(* Frame properties of the preparation.                                    *)
(***************************************************************************)
\* the preparation went through the UnTracked stage
WentUnTracked == \E i \in 1..Len(path) : path[i] = "UnTracked"

\* the buffers the preparation holds when it is created
InitBuffers ==
    LET p == prepare(backward, <<>>)
    IN  <<p.checkpointing_actions, p.unsure_checkpointing_actions>>

\* the state of an untracked preparation: no checkpointing action was ever
\* queued, and the output is built from the parents, the requirement and
\* the compute property alone
UnTrackedState ==
    WentUnTracked =>
        /\ CallsOf("checkpoint") = <<>>
        /\ CallsOf("might_need") = <<>>
        /\ <<checkpointing_actions, unsure_checkpointing_actions>> = InitBuffers
        /\ marker = "Finished" =>
              /\ FinishCalls[1].op = "UnTracked.finish"
              /\ <<output[1].checkpointing_actions,
                   output[1].unsure_checkpointing_actions>> = InitBuffers
              /\ output[1].node = [id |-> FreshNodeId, requirement |-> requirement,
                                   properties |-> compute_property]
              /\ output[1].parents = [i \in 1..Len(nodes) |-> nodes[i].id]
              /\ output[1].primitive = FinishCalls[1].ret
              /\ graph \cup pending = ParentSteps
              /\ backward_calls = <<>>

\* a step that finishes an untracked preparation changes the output, its
\* graph and the stage only
UnTrackedStep ==
    (marker' = "Finished" /\ marker # "Finished"
        /\ path'[Len(path') - 1] = "UnTracked")
        => UNCHANGED <<prepVars, compute_property, bufVars, passVars>>

(***************************************************************************)
(* C24: an untracked operation never acquires checkpointing actions: on    *)
(* every path ending in UnTracked.finish no checkpoint or might_need call  *)
(* was made, the decided and unsure buffers handed to the output tensor    *)
(* are the buffers the preparation held at Init, and UnTracked.finish has  *)
(* no effect other than constructing the output node from the parents'     *)
(* nodes and graphs, the requirement and the compute property.             *)
(***************************************************************************)
C24_UnTrackedFrame == []UnTrackedState /\ [][UnTrackedStep]_vars

C24_Witness ==
    /\ marker = "Finished"
    /\ path = <<"Init", "ComputePropertyChosen", "UnTracked", "Finished">>
    /\ calls[Len(calls)].op = "UnTracked.finish"
    /\ Len(nodes) = 2
    /\ compute_property.kind = "MemoryBound"
    /\ output[1].node.properties = compute_property
    /\ output[1].checkpointing_actions = <<>>
    /\ graph = {}

\* what no stage transition decides: the parents, the requirement, the
\* backward functor and the two buffers
Carried == <<nodes, graphs, requirement, backward, checkpointing_actions,
             unsure_checkpointing_actions>>

\* compute_bound and memory_bound change the compute property and the stage
PropertyStep ==
    (marker = "Init" /\ marker' = "ComputePropertyChosen")
        => /\ UNCHANGED <<Carried, state_ty, output, graph, passVars>>
           /\ calls'[Len(calls')].op \in {"compute_bound", "memory_bound"}
           /\ compute_property' = PrescribedProperty'

\* stateful changes the stage only
StatefulStep ==
    (marker \in {"Init", "ComputePropertyChosen"}
        /\ marker' \in {"Tracked", "UnTracked"})
        => /\ UNCHANGED <<Carried, compute_property, state_ty, output, graph, passVars>>
           /\ calls'[Len(calls')].op = "stateful"

\* the requirement is the one the preparation was created with
CreatedRequirement == requirement = Requirement_from_nodes(nodes)

\* stateless, which calls stateful and finish, carries the same over
StatelessStep ==
    (marker \in {"Init", "ComputePropertyChosen"} /\ marker' = "Finished")
        => UNCHANGED <<Carried, compute_property, state_ty, passVars>>

(***************************************************************************)
(* C25: compute_bound and memory_bound change only the compute property,   *)
(* stateful changes only the stage tag; the parent nodes (same order), the *)
(* parent graphs, the aggregate requirement, the backward functor, the     *)
(* decided buffer and the unsure buffer after each transition equal those  *)
(* before it, so the requirement stateful tests is the one the preparation *)
(* was created with.                                                       *)
(***************************************************************************)
C25_TransitionsPreserve ==
    []CreatedRequirement /\ [][PropertyStep /\ StatefulStep /\ StatelessStep]_vars

C25_Witness ==
    /\ marker = "Tracked"
    /\ path = <<"Init", "ComputePropertyChosen", "Tracked">>
    /\ calls[1].op = "compute_bound"
    /\ calls[2].op = "stateful"
    /\ compute_property = ComputeBound
    /\ Len(nodes) = 2
    /\ nodes[1].requirement = "None"
    /\ nodes[2].requirement = "Grad"
    /\ requirement = "Grad"
    /\ graphs[2] # {}
    /\ checkpointing_actions = <<>>

(***************************************************************************)
(* broadcast_shape as a whole call.                                        *)
(***************************************************************************)
\* the loop of broadcast_shape from the 0-based dimension d on: whether it
\* panics, the gradient it holds at the end and the dimensions it summed
RECURSIVE broadcast_shape_loop(_, _, _, _, _)
broadcast_shape_loop(g, sg, sh, d, sums) ==
    IF d = Len(sh) THEN [panic |-> FALSE, grad |-> g, sums |-> sums]
    ELSE LET r == broadcast_shape_body(g, sg, sh, d)
         IN  IF r.panic THEN [panic |-> TRUE, grad |-> r.grad, sums |-> sums]
             ELSE broadcast_shape_loop(r.grad, sg, sh, d + 1,
                      IF r.summed THEN Append(sums, d) ELSE sums)

\* broadcast_shape(grad, shape)
broadcast_shape(g, sh) == broadcast_shape_loop(g, float_shape(g), sh, 0, <<>>)

\* the 0-based differing dimensions, in increasing order
RECURSIVE DifferingFrom(_)
DifferingFrom(d) ==
    IF d > Len(shape) THEN <<>>
    ELSE (IF d \in Differing THEN <<d - 1>> ELSE <<>>) \o DifferingFrom(d + 1)

(***************************************************************************)
(* C26: when the shape of grad equals the target shape in every dimension  *)
(* broadcast_shape returns grad unchanged without calling the sum          *)
(* primitive; applying it with the same target to its own successful       *)
(* result returns that result unchanged; the sum primitive is never called *)
(* for a dimension whose extents are equal nor twice for one dimension,    *)
(* and a call that returns has called it exactly once per dimension whose  *)
(* extents differ (a call that panics, once per differing dimension before *)
(* the one it panics at).                                                  *)
(***************************************************************************)
C26_IdentityIdempotent ==
    bs_pc # "idle" =>
        /\ \A k \in 1..Len(sum_calls) :
              /\ sum_calls[k] + 1 \in Differing
              /\ \A l \in 1..Len(sum_calls) : sum_calls[l] = sum_calls[k] => l = k
        /\ bs_pc = "panicked" =>
              sum_calls = SelectSeq(DifferingFrom(1), LAMBDA d : d + 1 < FirstBad)
        /\ bs_pc = "returned" =>
              /\ sum_calls = DifferingFrom(1)
              /\ bs_ret = Some(broadcast_shape(bs_input, shape).grad)
              /\ Differing = {} => bs_ret = Some(bs_input) /\ sum_calls = <<>>
              /\ broadcast_shape(bs_ret[1], shape)
                     = [panic |-> FALSE, grad |-> bs_ret[1], sums |-> <<>>]

C26_Witness ==
    /\ bs_pc = "returned"
    /\ bs_input.dims = <<2, 1, 2>>
    /\ shape = <<1, 1, 2>>
    /\ sum_calls = <<0>>
    /\ bs_ret[1] # bs_input
    /\ broadcast_shape(bs_ret[1], shape).grad = bs_ret[1]
    /\ broadcast_shape(bs_ret[1], shape).sums = <<>>
====
